---- MODULE Spec2Model ----
(***************************************************************************)
(* Model of the SynthNV Pro serial driver: the command encoder             *)
(* (command.py / NVPcommand.py), the serial channel wrapper                *)
(* (NVPserialconnection.py) and the controller (nvprocontroller.py).       *)
(*                                                                         *)
(* Threads call controller methods.  Each method is a small program whose  *)
(* position is pc[t]; every access to the lock or to the serial channel is *)
(* one action, so that the accesses of different threads interleave the    *)
(* way Python threads do.  The instrument is the environment: it takes     *)
(* commands off the wire and emits reply lines.                            *)
(*                                                                         *)
(* Text is modelled with TLA+ strings; a line on the wire carries its      *)
(* terminator "\n".  A Python float is the decimal m * 10^-e, kept         *)
(* normalised (no trailing zero in m when e > 0).                          *)
(***************************************************************************)
EXTENDS Integers, Sequences, FiniteSets, TLC

(***************************************************************************)
(* Bounds of the model.                                                    *)
(***************************************************************************)
\* number of controller calls issued in one behaviour
MaxCalls == 2
\* number of data lines the instrument sends at most in one multi-line reply
MaxLines == 2

Threads == {1, 2}
NoThread == 0

(***************************************************************************)
(* Python strings.                                                         *)
(***************************************************************************)
Char(s, i) == SubSeq(s, i, i)

\* str.isspace for the characters that occur on the wire
IsSpace(c) == c \in {" ", "\t", "\n", "\r"}

RECURSIVE LStrip(_)
LStrip(s) ==
    IF Len(s) > 0 /\ IsSpace(Char(s, 1)) THEN LStrip(SubSeq(s, 2, Len(s))) ELSE s

RECURSIVE RStrip(_)
RStrip(s) ==
    IF Len(s) > 0 /\ IsSpace(Char(s, Len(s))) THEN RStrip(SubSeq(s, 1, Len(s) - 1)) ELSE s

\* str.strip()
Strip(s) == LStrip(RStrip(s))

\* sub in s
Contains(s, sub) ==
    \E i \in 1..(Len(s) - Len(sub) + 1) : SubSeq(s, i, i + Len(sub) - 1) = sub

DigitChars == "0123456789"

IsDigit(c) == \E i \in 1..10 : Char(DigitChars, i) = c

DigitVal(c) == (CHOOSE i \in 1..10 : Char(DigitChars, i) = c) - 1

AllDigits(s) == \A i \in 1..Len(s) : IsDigit(Char(s, i))

\* value of a string of decimal digits ("" is 0)
RECURSIVE DigitsVal(_)
DigitsVal(s) ==
    IF Len(s) = 0 THEN 0
    ELSE 10 * DigitsVal(SubSeq(s, 1, Len(s) - 1)) + DigitVal(Char(s, Len(s)))

\* str(n) for a natural number
RECURSIVE NatToStr(_)
NatToStr(n) ==
    IF n < 10 THEN Char(DigitChars, n + 1)
    ELSE NatToStr(n \div 10) \o Char(DigitChars, (n % 10) + 1)

\* str(n) for an int
IntToStr(n) == IF n < 0 THEN "-" \o NatToStr(0 - n) ELSE NatToStr(n)

RECURSIVE Pow10(_)
Pow10(k) == IF k = 0 THEN 1 ELSE 10 * Pow10(k - 1)

RECURSIVE Zeros(_)
Zeros(k) == IF k = 0 THEN "" ELSE "0" \o Zeros(k - 1)

(***************************************************************************)
(* Python values.                                                          *)
(***************************************************************************)
PyNone == [ty |-> "None", m |-> 0, e |-> 0, s |-> "", l |-> <<>>]
PyInt(n) == [ty |-> "int", m |-> n, e |-> 0, s |-> "", l |-> <<>>]
PyBool(b) == [ty |-> "bool", m |-> IF b THEN 1 ELSE 0, e |-> 0, s |-> "", l |-> <<>>]
PyStr(s) == [ty |-> "str", m |-> 0, e |-> 0, s |-> s, l |-> <<>>]
PyList(l) == [ty |-> "list", m |-> 0, e |-> 0, s |-> "", l |-> l]

\* the float m * 10^-e, normalised
RECURSIVE PyFloat(_, _)
PyFloat(m, e) ==
    IF e > 0 /\ m % 10 = 0 THEN PyFloat(m \div 10, e - 1)
    ELSE [ty |-> "float", m |-> m, e |-> e, s |-> "", l |-> <<>>]

IsNumber(v) == v.ty \in {"int", "bool", "float"}

\* a <= b for two Python numbers
NumLe(a, b) == a.m * Pow10(b.e) <= b.m * Pow10(a.e)

\* a == b for two Python numbers
NumEq(a, b) == a.m * Pow10(b.e) = b.m * Pow10(a.e)

\* position of the first "." in s, or 0
FirstDot(s) ==
    IF \E i \in 1..Len(s) : Char(s, i) = "."
    THEN CHOOSE i \in 1..Len(s) : Char(s, i) = "." /\ \A j \in 1..(i - 1) : Char(s, j) # "."
    ELSE 0

\* s without its trailing "0" characters
RECURSIVE RStripZeros(_)
RStripZeros(s) ==
    IF Len(s) > 0 /\ Char(s, Len(s)) = "0" THEN RStripZeros(SubSeq(s, 1, Len(s) - 1)) ELSE s

\* float(s): the decimal literals [sign] digits [. digits]; anything else
\* (the empty string, an error line, the sentinel, free text) is a ValueError.
ParseFloat(s) ==
    LET t    == Strip(s)
        neg  == Len(t) > 0 /\ Char(t, 1) = "-"
        sgn  == Len(t) > 0 /\ Char(t, 1) \in {"-", "+"}
        body == IF sgn THEN SubSeq(t, 2, Len(t)) ELSE t
        dot  == FirstDot(body)
        ip   == IF dot = 0 THEN body ELSE SubSeq(body, 1, dot - 1)
        fp   == IF dot = 0 THEN "" ELSE SubSeq(body, dot + 1, Len(body))
        good == AllDigits(ip) /\ AllDigits(fp) /\ Len(ip) + Len(fp) > 0
        sig  == RStripZeros(fp)
        mag  == DigitsVal(ip) * Pow10(Len(sig)) + DigitsVal(sig)
    IN  IF good
        THEN [ok |-> TRUE, val |-> PyFloat(IF neg THEN 0 - mag ELSE mag, Len(sig))]
        ELSE [ok |-> FALSE, val |-> PyNone]

\* int(s): [sign] digits; anything else is a ValueError.
ParseInt(s) ==
    LET t    == Strip(s)
        neg  == Len(t) > 0 /\ Char(t, 1) = "-"
        sgn  == Len(t) > 0 /\ Char(t, 1) \in {"-", "+"}
        body == IF sgn THEN SubSeq(t, 2, Len(t)) ELSE t
        good == AllDigits(body) /\ Len(body) > 0
    IN  IF good
        THEN [ok |-> TRUE, val |-> PyInt(IF neg THEN 0 - DigitsVal(body) ELSE DigitsVal(body))]
        ELSE [ok |-> FALSE, val |-> PyNone]

(***************************************************************************)
(* Command encoder (command.py, NVPcommand.py).                            *)
(***************************************************************************)
\* nvprocontroller.py names the command codes through Command; the codes are 
\* those of the table in NVPcommand.py.
SET_FREQUENCY_MHZ == "f"
SET_RF_POWER_dBm == "W"
QUERY_CAL_SUCCESS == "V"
SET_TEMP_COMPENSATION == "Z"
SET_RF_DETECTOR_MODE == "&"
READ_POWER_DETECTOR == "w"
SET_RAW_DAC == "a"
SET_PHASE_STEP == "~"
SET_RF_MUTE == "h"
SET_PLL_CHARGE_PUMP_CURRENT == "U"
SET_REFERENCE_DOUBLER == "D"
SET_CHANNEL_SPACING == "i"
SAVE_SETTINGS_TO_EEPROM == "e"
SET_REFERENCE_SOURCE == "x"
SET_TRIGGER_CONNECTOR_FUNCTION == "y"
SET_REFERENCE_FREQUENCY == "*"
SET_LOWER_FREQ_LINEAR_SWEEP == "l"
SET_UPPER_FREQ_LINEAR_SWEEP == "u"
SET_STEP_SIZE_FREQ_LINEAR_SWEEP == "s"
SET_TIME_LINEAR_SWEEP == "t"
SET_LINEAR_SWEEP_POWER_LOW == "["
SET_LINEAR_SWEEP_POWER_HIGH == "]"
SET_SWEEP_DIRECTION == "^"
SET_SWEEP_TYPE == "X"
SET_READ_WHILE_SWEEP == "r"
SET_SWEEP_DISPLAY_STYLE == "d"
RUN_SWEEP == "g"
SET_SWEEP_CONTINUOUS == "c"
QUERY_INTERNAL_TEMPERATURE == "z"
SHOW_VERSION == "v"
SHOW_MODEL_TYPE == "+"
SHOW_SERIAL_NUMBER == "-"
PLL_ENABLE == "E"
QUERY_CHAR == "?"
NUM_SIG_FIG_FLOAT == 7

\* n as exactly w decimal digits (n < 10^w)
PadDigits(n, w) == IF w = 0 THEN "" ELSE Zeros(w - Len(NatToStr(n))) \o NatToStr(n)

\* f"{val:.{sigfigs}f}"
format_float(val, sigfigs) ==
    LET neg == val.m < 0
        mag == IF neg THEN 0 - val.m ELSE val.m
        \* digits beyond sigfigs are rounded away, ties to even
        cut == IF val.e > sigfigs THEN val.e - sigfigs ELSE 0
        q   == mag \div Pow10(cut)
        r   == mag % Pow10(cut)
        up  == cut > 0 /\ (2 * r > Pow10(cut) \/ (2 * r = Pow10(cut) /\ q % 2 = 1))
        rnd == IF up THEN q + 1 ELSE q
        fd  == val.e - cut
        ip  == rnd \div Pow10(fd)
        fp  == rnd % Pow10(fd)
        txt == NatToStr(ip) \o (IF sigfigs > 0 THEN "." \o PadDigits(fp, fd) \o Zeros(sigfigs - fd) ELSE "")
    IN  IF neg THEN "-" \o txt ELSE txt

\* str(arg) for an argument that is not a float
PyStrOf(arg) ==
    CASE arg.ty = "None" -> "None"
      [] arg.ty = "int"  -> IntToStr(arg.m)
      [] arg.ty = "bool" -> (IF arg.m = 1 THEN "True" ELSE "False")
      [] arg.ty = "str"  -> arg.s
      [] OTHER           -> ""

\* format with the query character put before the argument
Format_QueryBeforeArgument(command, query, arg, sigfigs) ==
    LET args_str == IF arg.ty = "float" THEN format_float(arg, sigfigs)
                    ELSE IF arg.ty # "None" THEN PyStrOf(arg) ELSE ""
    IN  IF ~query THEN command \o args_str ELSE command \o QUERY_CHAR \o args_str

\* format that ends the text with a line feed
Format_WithLineFeed(command, query, arg, sigfigs) ==
    LET args_str == IF arg.ty = "float" THEN format_float(arg, sigfigs)
                    ELSE IF arg.ty # "None" THEN PyStrOf(arg) ELSE ""
    IN  (IF ~query THEN command \o args_str ELSE command \o args_str \o QUERY_CHAR) \o "\n"

\* Command.format(command, query, arg, sigfigs)
Format(command, query, arg, sigfigs) ==
    LET args_str == IF arg.ty = "float" THEN format_float(arg, sigfigs)
                    ELSE IF arg.ty # "None" THEN PyStrOf(arg) ELSE ""
    IN  IF ~query THEN command \o args_str ELSE command \o args_str \o QUERY_CHAR

\* Command.convert_float(val): float(val), or val itself on ValueError.
\* (No method of the controller calls it.)
convert_float(val) == IF ParseFloat(val).ok THEN ParseFloat(val).val ELSE PyStr(val)

\* float(x) and int(x) of a Python number
ToFloat(v) == PyFloat(v.m, v.e)
ToInt(v) ==
    LET mag == IF v.m < 0 THEN 0 - v.m ELSE v.m
        t   == mag \div Pow10(v.e)
    IN  PyInt(IF v.m < 0 THEN 0 - t ELSE t)

\* x in [n1, n2, ...] for a list of ints
InIntList(x, ns) == IsNumber(x) /\ \E n \in ns : NumEq(x, PyInt(n))

\* lo <= x <= hi
InRange(lo, x, hi) == NumLe(lo, x) /\ NumLe(x, hi)

(***************************************************************************)
(* Controller methods (nvprocontroller.py): what a method does before it   *)
(* touches the channel (argument conversion, domain check, encoding) and   *)
(* how it treats the reply.                                                *)
(*   exc    the exception raised before anything is sent, or ""            *)
(*   cmd    the command text handed to send_command                        *)
(*   kind   "set": no read; "get": one read_response; "multi": the    *)
(*          read_response loop of read_power_detector; "help":             *)
(*          read_responses(0.01); "sent": no read, the value returned is   *)
(*          made from what send_command returned                           *)
(*   decode the conversion applied to the reply                            *)
(***************************************************************************)
Raise(e) == [exc |-> e, cmd |-> "", kind |-> "", decode |-> ""]
Send(c, k, d) == [exc |-> "", cmd |-> c, kind |-> k, decode |-> d]

get_help == Send(Format(QUERY_CHAR, FALSE, PyNone, NUM_SIG_FIG_FLOAT), "help", "")

set_rf_frequency(frequency_mhz) ==
    Send(Format(SET_FREQUENCY_MHZ, FALSE, frequency_mhz, NUM_SIG_FIG_FLOAT), "set", "")

get_rf_frequency == Send(Format(SET_FREQUENCY_MHZ, TRUE, PyNone, NUM_SIG_FIG_FLOAT), "get", "float")

set_rf_power(power_dbm) ==
    Send(Format(SET_RF_POWER_dBm, FALSE, ToFloat(power_dbm), 3), "set", "")

get_rf_power == Send(Format(SET_RF_POWER_dBm, TRUE, PyNone, NUM_SIG_FIG_FLOAT), "get", "float")

get_calibration_succesful ==
    Send(Format(QUERY_CAL_SUCCESS, FALSE, PyNone, NUM_SIG_FIG_FLOAT), "get", "bool")

read_power_detector(x) ==
    Send(Format(READ_POWER_DETECTOR, FALSE, x, NUM_SIG_FIG_FLOAT), "multi", "float")

set_raw_dac(dac_value) ==
    Send(Format(SET_RAW_DAC, FALSE, dac_value, NUM_SIG_FIG_FLOAT), "set", "")

get_raw_dac == Send(Format(SET_RAW_DAC, TRUE, PyNone, NUM_SIG_FIG_FLOAT), "get", "int")

set_phase_step(phase_step) ==
    Send(Format(SET_PHASE_STEP, FALSE, phase_step, NUM_SIG_FIG_FLOAT), "set", "")

\* response = self.send_command(command); return bool(response)
get_pll_enable == Send(Format(PLL_ENABLE, TRUE, PyNone, NUM_SIG_FIG_FLOAT), "sent", "bool")

get_rf_mute == Send(Format(SET_RF_MUTE, TRUE, PyNone, NUM_SIG_FIG_FLOAT), "get", "RF_MUTE")

set_pll_charge_pump_current(x0) ==
    LET x == ToInt(x0)
    IN  IF x.m < 1 \/ x.m > 15 THEN Raise("ValueError")
        ELSE Send(Format(SET_PLL_CHARGE_PUMP_CURRENT, FALSE, x, NUM_SIG_FIG_FLOAT), "set", "")

set_reference_doubler(x) ==
    IF ~InIntList(x, {0, 1}) THEN Raise("ValueError")
    ELSE Send(Format(SET_REFERENCE_DOUBLER, FALSE, x, NUM_SIG_FIG_FLOAT), "set", "")

set_channel_spacing(frequency0) ==
    LET frequency == ToFloat(frequency0)
    IN  IF ~InRange(PyFloat(1, 1), frequency, PyInt(1000)) THEN Raise("ValueError")
        ELSE Send(Format(SET_CHANNEL_SPACING, FALSE, frequency, NUM_SIG_FIG_FLOAT), "set", "")

\* set_reference_frequency with the lower limit mistyped as 1.0
set_reference_frequency_LowLimit(frequency0) ==
    LET frequency == ToFloat(frequency0)
    IN  IF ~InRange(PyFloat(1, 0), frequency, PyFloat(100, 0)) THEN Raise("ValueError")
        ELSE Send(Format(SET_REFERENCE_FREQUENCY, FALSE, frequency, NUM_SIG_FIG_FLOAT), "set", "")

set_reference_frequency(frequency0) ==
    LET frequency == ToFloat(frequency0)
    IN  IF ~InRange(PyFloat(10, 0), frequency, PyFloat(100, 0)) THEN Raise("ValueError")
        ELSE Send(Format(SET_REFERENCE_FREQUENCY, FALSE, frequency, NUM_SIG_FIG_FLOAT), "set", "")

set_lower_freq_linear_sweep(frequency0) ==
    LET frequency == ToFloat(frequency0)
    IN  IF ~InRange(PyFloat(125, 1), frequency, PyInt(6400)) THEN Raise("ValueError")
        ELSE Send(Format(SET_LOWER_FREQ_LINEAR_SWEEP, FALSE, frequency, NUM_SIG_FIG_FLOAT), "set", "")

set_upper_freq_linear_sweep(frequency0) ==
    LET frequency == ToFloat(frequency0)
    IN  IF ~InRange(PyFloat(125, 1), frequency, PyInt(6400)) THEN Raise("ValueError")
        ELSE Send(Format(SET_UPPER_FREQ_LINEAR_SWEEP, FALSE, frequency, NUM_SIG_FIG_FLOAT), "set", "")

set_step_size_freq_linear_sweep(frequency0) ==
    LET frequency == ToFloat(frequency0)
    IN  Send(Format(SET_STEP_SIZE_FREQ_LINEAR_SWEEP, FALSE, frequency, NUM_SIG_FIG_FLOAT), "set", "")

set_linear_sweep_power_low(power0) ==
    LET power == ToFloat(power0)
    IN  IF ~InRange(PyInt(-50), power, PyInt(20)) THEN Raise("ValueError")
        ELSE Send(Format(SET_LINEAR_SWEEP_POWER_LOW, FALSE, power, 3), "set", "")

set_linear_sweep_power_high(power0) ==
    LET power == ToFloat(power0)
    IN  IF ~InRange(PyInt(-50), power, PyInt(20)) THEN Raise("ValueError")
        ELSE Send(Format(SET_LINEAR_SWEEP_POWER_HIGH, FALSE, power, 3), "set", "")

set_sweep_direction(direction) ==
    IF ~InIntList(direction, {0, 1}) THEN Raise("ValueError")
    ELSE Send(Format(SET_SWEEP_DIRECTION, FALSE, direction, NUM_SIG_FIG_FLOAT), "set", "")

set_sweep_type(sweep_type) ==
    IF ~InIntList(sweep_type, {0, 1, 2}) THEN Raise("ValueError")
    ELSE Send(Format(SET_SWEEP_TYPE, FALSE, sweep_type, NUM_SIG_FIG_FLOAT), "set", "")

set_sweep_display_style(style) ==
    IF ~InIntList(style, {0, 1, 2}) THEN Raise("ValueError")
    ELSE Send(Format(SET_SWEEP_DISPLAY_STYLE, FALSE, style, NUM_SIG_FIG_FLOAT), "set", "")

show_version(version_type) ==
    IF ~InIntList(version_type, {0, 1}) THEN Raise("ValueError")
    ELSE Send(Format(SHOW_VERSION, FALSE, version_type, NUM_SIG_FIG_FLOAT), "get", "str")

show_model_type == Send(Format(SHOW_MODEL_TYPE, FALSE, PyNone, NUM_SIG_FIG_FLOAT), "get", "str")

show_serial_number == Send(Format(SHOW_SERIAL_NUMBER, FALSE, PyNone, NUM_SIG_FIG_FLOAT), "get", "str")

\* the method named o, called with argument a
Method(o, a) ==
    CASE o = "get_help"                    -> get_help
      [] o = "set_rf_frequency"            -> set_rf_frequency(a)
      [] o = "get_rf_frequency"            -> get_rf_frequency
      [] o = "set_rf_power"                -> set_rf_power(a)
      [] o = "get_rf_power"                -> get_rf_power
      [] o = "read_power_detector"         -> read_power_detector(a)
      [] o = "set_raw_dac"                 -> set_raw_dac(a)
      [] o = "get_raw_dac"                 -> get_raw_dac
      [] o = "set_phase_step"              -> set_phase_step(a)
      [] o = "set_step_size_freq_linear_sweep" -> set_step_size_freq_linear_sweep(a)
      [] o = "get_rf_mute"                 -> get_rf_mute
      [] o = "get_pll_enable"              -> get_pll_enable
      [] o = "get_calibration_succesful"   -> get_calibration_succesful
      [] o = "set_pll_charge_pump_current" -> set_pll_charge_pump_current(a)
      [] o = "set_reference_doubler"       -> set_reference_doubler(a)
      [] o = "set_channel_spacing"         -> set_channel_spacing(a)
      [] o = "set_reference_frequency"     -> set_reference_frequency(a)
      [] o = "set_lower_freq_linear_sweep" -> set_lower_freq_linear_sweep(a)
      [] o = "set_upper_freq_linear_sweep" -> set_upper_freq_linear_sweep(a)
      [] o = "set_linear_sweep_power_low"  -> set_linear_sweep_power_low(a)
      [] o = "set_linear_sweep_power_high" -> set_linear_sweep_power_high(a)
      [] o = "set_sweep_direction"         -> set_sweep_direction(a)
      [] o = "set_sweep_type"              -> set_sweep_type(a)
      [] o = "set_sweep_display_style"     -> set_sweep_display_style(a)
      [] o = "show_version"                -> show_version(a)
      [] o = "show_model_type"             -> show_model_type
      [] o = "show_serial_number"          -> show_serial_number
      [] OTHER                             -> Raise("AttributeError")

\* RF_MUTE(value): the enum member with that value
RF_MUTE(value) ==
    IF value \in {"1", "0"}
    THEN [ok |-> TRUE, val |-> [ty |-> "RF_MUTE", m |-> 0, e |-> 0, s |-> value, l |-> <<>>]]
    ELSE [ok |-> FALSE, val |-> PyNone]

\* bool(v)
Truthy(v) ==
    CASE v.ty = "None" -> FALSE
      [] v.ty = "str"  -> v.s # ""
      [] v.ty = "list" -> v.l # <<>>
      [] OTHER         -> v.m # 0

\* the conversion a getter applies to the text read_response returned
Decode(d, response) ==
    CASE d = "float"   -> ParseFloat(response)
      [] d = "int"     -> ParseInt(response)
      [] d = "bool"    -> [ok |-> TRUE, val |-> PyBool(Truthy(PyStr(response)))]
      [] d = "RF_MUTE" -> RF_MUTE(response)
      [] OTHER         -> [ok |-> TRUE, val |-> PyStr(response)]

(***************************************************************************)
(* The instrument (environment).  It answers a command with one of a few   *)
(* scripts of reply lines; every line ends with the line terminator.       *)
(***************************************************************************)
SENTINEL == "EOM."
ErrorLine == "$error/bad value#%\n"

\* the i-th sample of a power-detector reply
DataLine(i) ==
    CASE i = 1 -> "-10.176\n"
      [] i = 2 -> "-10.200\n"
      [] OTHER -> "-10.150\n"

DataLines(k) == [i \in 1..k |-> DataLine(i)]

\* the value the instrument reports for a query with this code
ValueLine(code) ==
    CASE code = SET_FREQUENCY_MHZ  -> "2450.0000000\n"
      [] code = SET_RF_POWER_dBm   -> "-20.000\n"
      [] code = SET_RAW_DAC        -> "4000\n"
      [] code = SET_RF_MUTE        -> "1\n"
      [] code = SHOW_VERSION       -> "Firmware Version 3.25\n"
      [] code = SHOW_MODEL_TYPE    -> "WFT SynthNVP 55\n"
      [] code = SHOW_SERIAL_NUMBER -> "1234\n"
      [] OTHER                     -> "0\n"

\* the values of a flag the instrument may report
FlagLines(code) ==
    IF code \in {QUERY_CAL_SUCCESS, PLL_ENABLE} THEN {"1\n", "0\n"} ELSE {}

IsQueryText(c) ==
    \/ Char(c, Len(c)) = QUERY_CHAR
    \/ Char(c, 1) \in {SHOW_VERSION, SHOW_MODEL_TYPE, SHOW_SERIAL_NUMBER, QUERY_CAL_SUCCESS}

\* the most data lines of a multi-line reply: MaxLines for the single caller;
\* one when two threads share the controller, where the interleaving of the
\* threads and not the length of a reply is what is explored
LinesLimit(md) == IF md = "conc" THEN 1 ELSE MaxLines

\* a reply line that is neither a number, nor an error report, nor the sentinel
TextLine == "ovf\n"

\* seq with x put in at position p
InsertAt(seq, p, x) == SubSeq(seq, 1, p - 1) \o <<x>> \o SubSeq(seq, p, Len(seq))

\* the lines other than samples that may stand among the samples of a
\* multi-line reply (explored for the single caller)
OddLines(md) == IF md = "conc" THEN {} ELSE {ErrorLine, TextLine}

\* the replies the instrument may give to the command text c
ReplyScripts(c, md) ==
    IF c = QUERY_CHAR
    THEN {<<"f) RF Frequency\n">>, <<"f) RF Frequency\n", SENTINEL \o "\n">>}
    ELSE IF Char(c, 1) = READ_POWER_DETECTOR
    THEN {DataLines(k) \o tail : k \in 0..LinesLimit(md), tail \in {<<>>, <<SENTINEL \o "\n">>}}
         \cup {InsertAt(DataLines(LinesLimit(md)), p, x) \o <<SENTINEL \o "\n">> :
                  p \in 1..(LinesLimit(md) + 1), x \in OddLines(md)}
    ELSE IF IsQueryText(c)
    THEN {<<ValueLine(Char(c, 1))>>, <<ErrorLine>>, <<>>}
         \cup {<<line>> : line \in FlagLines(Char(c, 1))}
    ELSE {<<>>, <<ErrorLine>>}

(***************************************************************************)
(* The calls the threads make.  Two threads share the controller in the    *)
(* concurrent configuration; one thread exercises every method in the      *)
(* sequential configuration.                                               *)
(***************************************************************************)
CallOf(o, a) == [op |-> o, arg |-> a]

MenuConc ==
    { CallOf("get_rf_frequency", PyNone),
      CallOf("get_rf_power", PyNone),
      CallOf("set_rf_frequency", PyFloat(2450, 0)),
      CallOf("read_power_detector", PyInt(2)),
      CallOf("get_help", PyNone) }

MenuSeq ==
    { CallOf("get_help", PyNone),
      CallOf("set_rf_frequency", PyFloat(2450, 0)),
      CallOf("set_rf_frequency", PyFloat(99999, 0)),
      CallOf("get_rf_frequency", PyNone),
      CallOf("set_rf_frequency", PyInt(2450)),
      CallOf("set_rf_power", PyInt(-20)),
      CallOf("set_rf_power", PyInt(21)),
      CallOf("set_raw_dac", PyInt(4000)),
      CallOf("set_raw_dac", PyInt(4001)),
      CallOf("set_phase_step", PyInt(90)),
      CallOf("set_phase_step", PyFloat(905, 1)),
      CallOf("set_step_size_freq_linear_sweep", PyInt(1)),
      CallOf("set_step_size_freq_linear_sweep", PyFloat(5, 1)),
      CallOf("get_rf_power", PyNone),
      CallOf("read_power_detector", PyNone),
      CallOf("read_power_detector", PyInt(3)),
      CallOf("get_raw_dac", PyNone),
      CallOf("get_rf_mute", PyNone),
      CallOf("get_pll_enable", PyNone),
      CallOf("get_calibration_succesful", PyNone),
      CallOf("show_model_type", PyNone),
      CallOf("show_serial_number", PyNone) }
    \cup { CallOf("set_pll_charge_pump_current", a) : a \in {PyInt(0), PyInt(1), PyInt(15), PyInt(16), PyFloat(159, 1)} }
    \cup { CallOf("set_reference_doubler", a) : a \in {PyInt(0), PyInt(1), PyInt(2), PyInt(-1), PyFloat(5, 1),
                                                         PyBool(TRUE)} }
    \cup { CallOf("set_channel_spacing", a) : a \in {PyFloat(1, 1), PyInt(1000), PyFloat(9, 2), PyFloat(10001, 1), PyInt(0)} }
    \cup { CallOf("set_reference_frequency", a) : a \in {PyFloat(5, 0), PyFloat(10, 0), PyFloat(100, 0), PyFloat(1001, 1), PyInt(5)} }
    \cup { CallOf("set_lower_freq_linear_sweep", a) : a \in {PyFloat(125, 1), PyFloat(124, 1), PyInt(6400), PyFloat(64001, 1)} }
    \cup { CallOf("set_upper_freq_linear_sweep", a) : a \in {PyFloat(125, 1), PyFloat(124, 1), PyInt(6400), PyFloat(64001, 1)} }
    \cup { CallOf("set_linear_sweep_power_low", a) : a \in {PyInt(-50), PyFloat(-501, 1), PyInt(20), PyFloat(201, 1)} }
    \cup { CallOf("set_linear_sweep_power_high", a) : a \in {PyInt(-50), PyFloat(-501, 1), PyInt(20), PyFloat(201, 1)} }
    \cup { CallOf("set_sweep_direction", a) : a \in {PyInt(0), PyInt(1), PyInt(2), PyInt(-1), PyNone,
                                                       PyFloat(1, 0)} }
    \cup { CallOf("set_sweep_type", a) : a \in {PyInt(0), PyInt(2), PyInt(3), PyInt(-1), PyFloat(2, 0)} }
    \cup { CallOf("set_sweep_display_style", a) : a \in {PyInt(0), PyInt(2), PyInt(3), PyInt(-1)} }
    \cup { CallOf("show_version", a) : a \in {PyInt(0), PyInt(1), PyInt(2), PyInt(-1)} }

\* the calls of two threads of which one may hold the lock around its calls
MenuNested ==
    { CallOf("get_rf_frequency", PyNone),
      CallOf("set_rf_frequency", PyFloat(2450, 0)) }

\* the calls made while the instrument may send samples without end
MenuStream ==
    { CallOf("read_power_detector", PyInt(2)),
      CallOf("get_rf_frequency", PyNone) }

\* the calls made inside a "with SerialConnection.connection(...)" block
MenuContext ==
    { CallOf("get_rf_frequency", PyNone),
      CallOf("set_rf_frequency", PyFloat(2450, 0)),
      CallOf("set_reference_frequency", PyFloat(5, 0)) }

Menu(md) ==
    CASE md = "conc"    -> MenuConc
      [] md = "nested"  -> MenuNested
      [] md = "stream"  -> MenuStream
      [] md = "context" -> MenuContext
      [] OTHER         -> MenuSeq

Active(md) == IF md \in {"conc", "nested"} THEN Threads ELSE {1}

(***************************************************************************)
(* State.                                                                  *)
(***************************************************************************)
VARIABLES
    mode,        \* "conc" or "seq": which threads call, and which calls
    DEBUG_MODE,  \* SerialConnection.DEBUG_MODE, a class attribute
    nCalls,      \* calls issued so far; a call's number identifies it
    pc,          \* pc[t]: where thread t is in its controller method
    op,          \* op[t], arg[t]: the method t is in and its argument
    arg,
    callId,      \* callId[t]: the number of t's current call
    response,    \* response[t]: the last text read_response returned to t
    responses,   \* responses[t]: the list t accumulates (responses / data)
    result,      \* result[t]: the value the method returned
    outcome,     \* outcome[t]: "" while running, "ok", or the exception raised
    lockOwner,   \* SynthNVProController._lock: owning thread, or NoThread
    lockCount,   \*   and its recursion level
    isOpen,      \* serial.Serial.is_open
    inBuf,       \* lines received and not yet read (the input buffer)
    outBuf,      \* commands written and not yet taken by the instrument
    devPending,  \* replies the instrument has decided on and not yet sent
    chanLog,     \* history: chanLog[t], what t did to lock and channel in this call
    consumed,    \* history: consumed[t], the raw lines t's reads took off the input buffer
    stale,       \* history: stale[t], the lines in the input buffer when t's
                 \*   single-reply query began
    portLog,     \* history: portLog[t], the calls t's send() in progress (or failed)
                 \*   has made on the port in reset_buffers
    formatted,   \* a call of Command.format on its own: its arguments and its result
    held,        \* held[t]: 1 while t's own code is inside "with controller._lock:"
    streaming,   \* the call whose command the instrument answers with an endless
                 \*   run of samples, or 0
    polled,      \* a call of read_response(wait_time) on its own
    managed      \* the "with SerialConnection.connection(...)" block of the caller

locals == <<pc, op, arg, callId, response, responses, result, outcome>>
lock == <<lockOwner, lockCount>>
chan == <<isOpen, inBuf, outBuf, devPending>>
hist == <<chanLog, consumed, stale, portLog>>
extra == <<formatted, held, streaming, polled, managed>>
vars == <<mode, DEBUG_MODE, nCalls, locals, lock, chan, hist, extra>>

Range(f) == {f[i] : i \in DOMAIN f}

InitCommon ==
    /\ nCalls = 0
    /\ pc = [t \in Threads |-> "idle"]
    /\ op = [t \in Threads |-> ""]
    /\ arg = [t \in Threads |-> PyNone]
    /\ callId = [t \in Threads |-> 0]
    /\ response = [t \in Threads |-> ""]
    /\ responses = [t \in Threads |-> <<>>]
    /\ result = [t \in Threads |-> PyNone]
    /\ outcome = [t \in Threads |-> ""]
    /\ lockOwner = NoThread
    /\ lockCount = 0
    /\ isOpen = TRUE
    /\ inBuf = <<>>
    /\ outBuf = <<>>
    /\ devPending = <<>>
    /\ chanLog = [t \in Threads |-> <<>>]
    /\ consumed = [t \in Threads |-> <<>>]
    /\ stale = [t \in Threads |-> {}]
    /\ portLog = [t \in Threads |-> <<>>]
    /\ held = [t \in Threads |-> 0]
    /\ streaming = 0

\* no call of Command.format on its own
NoFormat ==
    [command |-> "", query |-> FALSE, arg |-> PyNone, sigfigs |-> 0, text |-> "", done |-> FALSE]

\* no call of read_response(wait_time) on its own
NoPoll ==
    [pc |-> "", wait_time |-> 0, elapsed |-> 0, response |-> "", reads |-> 0, readAt |-> -1,
     result |-> ""]

\* the connection was not made by the context manager
NoContext == [pc |-> "", disconnects |-> 0]

\* a controller on an open connection, used through its methods
InitController ==
    InitCommon /\ formatted = NoFormat /\ polled = NoPoll /\ managed = NoContext

\* DEBUG_MODE is False in the class body and nothing in the repository sets it
Init == mode = "conc" /\ DEBUG_MODE = FALSE /\ InitController

InitSeq == mode = "seq" /\ DEBUG_MODE = FALSE /\ InitController

\* a user has set SerialConnection.DEBUG_MODE = True
InitDebug == mode = "seq" /\ DEBUG_MODE = TRUE /\ InitController

(***************************************************************************)
(* The serial channel (NVPserialconnection.py).                            *)
(***************************************************************************)
\* serial.Serial.readline(): the next line, or "" when the read timeout
\* passes with nothing received; PortNotOpenError on a closed port.
readline ==
    IF ~isOpen THEN [exc |-> "SerialException", text |-> "", rest |-> inBuf, got |-> <<>>]
    ELSE IF inBuf = <<>> THEN [exc |-> "", text |-> "", rest |-> inBuf, got |-> <<>>]
    ELSE [exc |-> "", text |-> Head(inBuf).txt, rest |-> Tail(inBuf), got |-> <<Head(inBuf)>>]

\* SerialConnection.read_response(wait_time = 0): one readline, stripped.
\* (Every caller in the controller leaves wait_time at 0, which skips the
\* polling loop.)
read_response ==
    LET r == readline IN [r EXCEPT !.text = Strip(r.text)]

\* the discards reset_buffers gets to call when the given one raises
Discards(fault) ==
    IF fault = "input" THEN <<"reset_input_buffer">>
    ELSE <<"reset_input_buffer", "reset_output_buffer">>

\* reset_buffers with the input discard left out: the input buffer survives
reset_buffers_KeepsInput(fault, reopenOk) ==
    IF ~isOpen
    THEN [exc |-> "SerialException", isOpen |-> FALSE, inBuf |-> inBuf, outBuf |-> outBuf,
          ops |-> <<"reset_input_buffer">>]
    ELSE IF fault = "none"
    THEN [exc |-> "", isOpen |-> TRUE, inBuf |-> inBuf, outBuf |-> <<>>, ops |-> Discards(fault)]
    ELSE IF reopenOk
    THEN [exc |-> "", isOpen |-> TRUE, inBuf |-> inBuf, outBuf |-> <<>>,
          ops |-> Discards(fault) \o <<"close", "open">>]
    ELSE [exc |-> "SerialException", isOpen |-> FALSE, inBuf |-> <<>>, outBuf |-> <<>>,
          ops |-> Discards(fault) \o <<"close", "open">>]

\* reset_buffers with only the input discard inside the try: a fault of the
\* output discard propagates, the port is neither closed nor reopened
reset_buffers_TryInputOnly(fault, reopenOk) ==
    IF ~isOpen
    THEN [exc |-> "SerialException", isOpen |-> FALSE, inBuf |-> inBuf, outBuf |-> outBuf,
          ops |-> <<"reset_input_buffer">>]
    ELSE IF fault = "none"
    THEN [exc |-> "", isOpen |-> TRUE, inBuf |-> <<>>, outBuf |-> <<>>, ops |-> Discards(fault)]
    ELSE IF fault = "output"
    THEN [exc |-> "SerialException", isOpen |-> TRUE, inBuf |-> <<>>, outBuf |-> outBuf,
          ops |-> Discards(fault)]
    ELSE IF reopenOk
    THEN [exc |-> "", isOpen |-> TRUE, inBuf |-> <<>>, outBuf |-> <<>>,
          ops |-> Discards(fault) \o <<"close", "open">>]
    ELSE [exc |-> "SerialException", isOpen |-> FALSE, inBuf |-> <<>>, outBuf |-> <<>>,
          ops |-> Discards(fault) \o <<"close", "open">>]

\* SerialConnection.reset_buffers().  fault: "none", or which discard raised
\* TermiosError ("input", "output"); reopenOk: whether open() succeeds after
\* the close().  A closed port raises PortNotOpenError, which is not a
\* TermiosError (the termios module is there: the driver's port is a POSIX
\* device) and is not caught.  close() releases the handle and with it both
\* buffers; open() starts with empty buffers.  ops: the calls made on the
\* port, in order; exc: what the last of them raised, if it did.
reset_buffers(fault, reopenOk) ==
    IF ~isOpen
    THEN [exc |-> "SerialException", isOpen |-> FALSE, inBuf |-> inBuf, outBuf |-> outBuf,
          ops |-> <<"reset_input_buffer">>]
    ELSE IF fault = "none"
    THEN [exc |-> "", isOpen |-> TRUE, inBuf |-> <<>>, outBuf |-> <<>>, ops |-> Discards(fault)]
    ELSE IF reopenOk
    THEN [exc |-> "", isOpen |-> TRUE, inBuf |-> <<>>, outBuf |-> <<>>,
          ops |-> Discards(fault) \o <<"close", "open">>]
    ELSE [exc |-> "SerialException", isOpen |-> FALSE, inBuf |-> <<>>, outBuf |-> <<>>,
          ops |-> Discards(fault) \o <<"close", "open">>]

(***************************************************************************)
(* The controller's lock.                                                  *)
(***************************************************************************)
\* acquire() ... release() without try/finally: an exception skips the release
WithLockExit_NoFinally(raised) ==
    IF raised THEN [owner |-> lockOwner, count |-> lockCount]
    ELSE IF lockCount > 1 THEN [owner |-> lockOwner, count |-> lockCount - 1]
    ELSE [owner |-> NoThread, count |-> 0]

\* release() of a lock that is not re-entrant: the lock is free at once
WithLockExit_NotReentrant(raised) == [owner |-> NoThread, count |-> 0]

\* leaving "with self._lock": the lock state after __exit__, whether the
\* block ended normally or raised
WithLockExit(raised) ==
    IF lockCount > 1 THEN [owner |-> lockOwner, count |-> lockCount - 1]
    ELSE [owner |-> NoThread, count |-> 0]

(***************************************************************************)
(* Actions of a thread t.                                                  *)
(***************************************************************************)
\* t's accesses in order; a run of reads is noted once
Log(t, ev) ==
    chanLog' = [chanLog EXCEPT ![t] =
                   IF ev = "read" /\ Len(@) > 0 /\ @[Len(@)] = "read" THEN @ ELSE Append(@, ev)]

Finish(t, oc, res) ==
    /\ pc' = [pc EXCEPT ![t] = "done"]
    /\ outcome' = [outcome EXCEPT ![t] = oc]
    /\ result' = [result EXCEPT ![t] = res]

\* t calls a controller method: argument conversion, domain check, encoding
Call(t) ==
    /\ pc[t] = "idle"
    /\ nCalls < MaxCalls
    /\ t = 1 \/ nCalls > 0    \* the threads are alike: thread 1 makes the first call
    /\ \E c \in Menu(mode) :
        /\ op' = [op EXCEPT ![t] = c.op]
        /\ arg' = [arg EXCEPT ![t] = c.arg]
        /\ IF Method(c.op, c.arg).exc # ""
           THEN Finish(t, Method(c.op, c.arg).exc, PyNone)
           ELSE /\ pc' = [pc EXCEPT ![t] = "acquire"]
                /\ UNCHANGED <<outcome, result>>
    /\ nCalls' = nCalls + 1
    /\ callId' = [callId EXCEPT ![t] = nCalls + 1]
    /\ stale' = [stale EXCEPT ![t] = IF Method(op'[t], arg'[t]).kind = "get" THEN Range(inBuf) ELSE {}]
    /\ UNCHANGED <<mode, DEBUG_MODE, extra, portLog, response, responses, lock, chan, chanLog, consumed>>

\* send_command: with self._lock (enter)
Acquire(t) ==
    /\ pc[t] = "acquire"
    /\ lockOwner \in {NoThread, t}
    /\ lockOwner' = t
    /\ lockCount' = lockCount + 1
    /\ pc' = [pc EXCEPT ![t] = "reset"]
    /\ Log(t, "lock")
    /\ UNCHANGED <<mode, DEBUG_MODE, extra, portLog, nCalls, op, arg, callId, response, responses, result, outcome,
                   chan, consumed, stale>>

\* SerialConnection.send: self.reset_buffers()
Reset(t) ==
    /\ pc[t] = "reset"
    /\ \E fault \in {"none", "input", "output"}, reopenOk \in BOOLEAN :
        LET r == reset_buffers(fault, reopenOk) IN
        /\ isOpen' = r.isOpen
        /\ inBuf' = r.inBuf
        /\ outBuf' = r.outBuf
        /\ portLog' = [portLog EXCEPT ![t] = r.ops]
        /\ IF r.exc # ""
           THEN /\ Finish(t, r.exc, PyNone)
                /\ lockOwner' = WithLockExit(TRUE).owner
                /\ lockCount' = WithLockExit(TRUE).count
           ELSE /\ pc' = [pc EXCEPT ![t] = "write"]
                /\ UNCHANGED <<outcome, result, lock>>
    /\ Log(t, "reset")
    /\ UNCHANGED <<mode, DEBUG_MODE, extra, nCalls, op, arg, callId, response, responses, devPending,
                   consumed, stale>>

\* SerialConnection.send: self.connection.write(data); the write may fail
Write(t) ==
    /\ pc[t] = "write"
    /\ \E ok \in BOOLEAN :
        IF ok
        THEN /\ outBuf' = Append(outBuf, [txt |-> Method(op[t], arg[t]).cmd, id |-> callId[t]])
             /\ pc' = [pc EXCEPT ![t] = "release"]
             /\ UNCHANGED <<outcome, result, lock>>
        ELSE /\ Finish(t, "SerialException", PyNone)
             /\ lockOwner' = WithLockExit(TRUE).owner
             /\ lockCount' = WithLockExit(TRUE).count
             /\ UNCHANGED outBuf
    /\ Log(t, "write")
    /\ UNCHANGED <<mode, DEBUG_MODE, extra, portLog, nCalls, op, arg, callId, response, responses, isOpen, inBuf,
                   devPending, consumed, stale>>

\* SerialConnection.send_command after the send: with DEBUG_MODE it calls
\* read_responses(wait_time=0), whose wait loop is not entered and which does
\* one readline() and drops the line; it returns None either way.  Then the
\* with block of send_command ends, and the method goes on to its reads.
Release(t) ==
    /\ pc[t] = "release"
    /\ LET r == IF DEBUG_MODE THEN readline
                ELSE [exc |-> "", text |-> "", rest |-> inBuf, got |-> <<>>]
       IN  /\ inBuf' = r.rest
           /\ consumed' = [consumed EXCEPT ![t] = @ \o r.got]
    /\ chanLog' = [chanLog EXCEPT ![t] =
                      IF DEBUG_MODE THEN @ \o <<"read", "unlock">> ELSE Append(@, "unlock")]
    /\ portLog' = [portLog EXCEPT ![t] = <<>>]
    /\ lockOwner' = WithLockExit(FALSE).owner
    /\ lockCount' = WithLockExit(FALSE).count
    /\ IF Method(op[t], arg[t]).kind = "set"
       THEN Finish(t, "ok", PyNone)
       ELSE IF Method(op[t], arg[t]).kind = "sent"
       THEN Finish(t, "ok", PyBool(Truthy(PyNone)))    \* send_command returns None
       ELSE /\ pc' = [pc EXCEPT ![t] =
                        CASE Method(op[t], arg[t]).kind = "get"   -> "read"
                          [] Method(op[t], arg[t]).kind = "multi" -> "rpd"
                          [] OTHER                                -> "help"]
            /\ UNCHANGED <<outcome, result>>
    /\ UNCHANGED <<mode, DEBUG_MODE, extra, nCalls, op, arg, callId, response, responses,
                   isOpen, outBuf, devPending, stale>>

\* a getter: return <conversion>(self.connection.read_response())
GetRead(t) ==
    /\ pc[t] = "read"
    /\ LET r == read_response
           d == Decode(Method(op[t], arg[t]).decode, r.text)
       IN  /\ inBuf' = r.rest
           /\ consumed' = [consumed EXCEPT ![t] = @ \o r.got]
           /\ response' = [response EXCEPT ![t] = r.text]
           /\ IF r.exc # "" THEN Finish(t, r.exc, PyNone)
              ELSE IF d.ok THEN Finish(t, "ok", d.val)
              ELSE Finish(t, "ValueError", PyNone)
    /\ Log(t, "read")
    /\ UNCHANGED <<mode, DEBUG_MODE, extra, portLog, nCalls, op, arg, callId, responses, lock, isOpen, outBuf,
                   devPending, stale>>

\* the loop with responses.insert(0, ...) in place of responses.append(...)
read_power_detector_loop_Prepend(acc, text) ==
    IF text = SENTINEL THEN [exit |-> TRUE, exc |-> "", responses |-> acc]
    ELSE IF ~ParseFloat(text).ok THEN [exit |-> TRUE, exc |-> "ValueError", responses |-> acc]
    ELSE [exit |-> FALSE, exc |-> "", responses |-> <<ParseFloat(text).val>> \o acc]

\* read_power_detector: one pass of
\*   while (response := self.connection.read_response()) != "EOM.":
\*       responses.append(float(response))
\* given the list so far and the text just read
read_power_detector_loop(acc, text) ==
    IF text = SENTINEL THEN [exit |-> TRUE, exc |-> "", responses |-> acc]
    ELSE IF ~ParseFloat(text).ok THEN [exit |-> TRUE, exc |-> "ValueError", responses |-> acc]
    ELSE [exit |-> FALSE, exc |-> "", responses |-> Append(acc, ParseFloat(text).val)]

\* The lists of a call are followed up to Window entries; of a longer list
\* the last Window entries are kept (no step of the program looks at the
\* entries of a list it is building).  Only an endless reply makes a list
\* that long: the replies to MaxCalls commands have fewer lines.
Window == MaxCalls * (MaxLines + 2)
Kept(s) == IF Len(s) > Window THEN SubSeq(s, Len(s) - Window + 1, Len(s)) ELSE s

RpdRead(t) ==
    /\ pc[t] = "rpd"
    /\ LET r == read_response
           s == read_power_detector_loop(Kept(responses[t]), r.text)
       IN  /\ inBuf' = r.rest
           /\ consumed' = [consumed EXCEPT ![t] = Kept(@ \o r.got)]
           /\ response' = [response EXCEPT ![t] = r.text]
           /\ IF r.exc # ""
              THEN Finish(t, r.exc, PyNone) /\ UNCHANGED responses
              ELSE /\ responses' = [responses EXCEPT ![t] = s.responses]
                   /\ IF ~s.exit THEN UNCHANGED <<pc, outcome, result>>
                      ELSE IF s.exc # "" THEN Finish(t, s.exc, PyNone)
                      ELSE Finish(t, "ok", PyList(s.responses))
    /\ Log(t, "read")
    /\ UNCHANGED <<mode, DEBUG_MODE, extra, portLog, nCalls, op, arg, callId, lock, isOpen, outBuf,
                   devPending, stale>>

\* SerialConnection.read_responses(0.01), inside the wait loop:
\*   if self.connection.in_waiting > 0: data.append(self.read_response())
\* (a pass that finds nothing waiting changes nothing)
HelpPoll(t) ==
    /\ pc[t] = "help"
    /\ ~isOpen \/ inBuf # <<>>
    /\ LET r == read_response
       IN  /\ inBuf' = r.rest
           /\ consumed' = [consumed EXCEPT ![t] = @ \o r.got]
           /\ response' = [response EXCEPT ![t] = r.text]
           /\ IF r.exc # ""
              THEN Finish(t, r.exc, PyNone) /\ UNCHANGED responses
              ELSE /\ responses' = [responses EXCEPT ![t] = Append(@, PyStr(r.text))]
                   /\ UNCHANGED <<pc, outcome, result>>
    /\ Log(t, "read")
    /\ UNCHANGED <<mode, DEBUG_MODE, extra, portLog, nCalls, op, arg, callId, lock, isOpen, outBuf,
                   devPending, stale>>

\* SerialConnection.read_responses(0.01), the wait time has passed:
\*   response = self.connection.readline().decode(); return data
HelpFinish(t) ==
    /\ pc[t] = "help"
    /\ LET r == readline
       IN  /\ inBuf' = r.rest
           /\ consumed' = [consumed EXCEPT ![t] = @ \o r.got]
           /\ IF r.exc # "" THEN Finish(t, r.exc, PyNone)
              ELSE Finish(t, "ok", PyList(responses[t]))
    /\ Log(t, "read")
    /\ UNCHANGED <<mode, DEBUG_MODE, extra, portLog, nCalls, op, arg, callId, response, responses, lock, isOpen,
                   outBuf, devPending, stale>>

\* the caller has its result; t is free for its next call
Return(t) ==
    /\ pc[t] = "done"
    /\ pc' = [pc EXCEPT ![t] = "idle"]
    /\ op' = [op EXCEPT ![t] = ""]
    /\ arg' = [arg EXCEPT ![t] = PyNone]
    /\ callId' = [callId EXCEPT ![t] = 0]
    /\ response' = [response EXCEPT ![t] = ""]
    /\ responses' = [responses EXCEPT ![t] = <<>>]
    /\ result' = [result EXCEPT ![t] = PyNone]
    /\ outcome' = [outcome EXCEPT ![t] = ""]
    /\ chanLog' = [chanLog EXCEPT ![t] = <<>>]
    /\ consumed' = [consumed EXCEPT ![t] = <<>>]
    /\ stale' = [stale EXCEPT ![t] = {}]
    /\ portLog' = [portLog EXCEPT ![t] = <<>>]
    /\ UNCHANGED <<mode, DEBUG_MODE, extra, nCalls, lock, chan>>

(***************************************************************************)
(* Actions of the instrument.                                              *)
(***************************************************************************)
\* the instrument takes the next command off the wire and decides its reply;
\* it handles one command at a time: it has sent its reply to a command
\* before it takes the next
DeviceReceive ==
    /\ isOpen
    /\ outBuf # <<>>
    /\ devPending = <<>>
    /\ \E script \in ReplyScripts(Head(outBuf).txt, mode) :
        devPending' = devPending \o
            (IF script = <<>> THEN <<>>
             ELSE << [i \in 1..Len(script) |-> [txt |-> script[i], cmd |-> Head(outBuf).id, n |-> i]] >>)
    /\ outBuf' = Tail(outBuf)
    /\ UNCHANGED <<mode, DEBUG_MODE, extra, nCalls, locals, lock, isOpen, inBuf, hist>>

\* the instrument's reply to its oldest unanswered command arrives
DeviceEmit ==
    /\ isOpen
    /\ devPending # <<>>
    /\ inBuf' = inBuf \o Head(devPending)
    /\ devPending' = Tail(devPending)
    /\ UNCHANGED <<mode, DEBUG_MODE, extra, nCalls, locals, lock, isOpen, outBuf, hist>>

Next ==
    \/ \E t \in Active(mode) :
        \/ Call(t)
        \/ Acquire(t)
        \/ Reset(t)
        \/ Write(t)
        \/ Release(t)
        \/ GetRead(t)
        \/ RpdRead(t)
        \/ HelpPoll(t)
        \/ HelpFinish(t)
        \/ Return(t)
    \/ DeviceReceive
    \/ DeviceEmit

\* two threads sharing one controller
Spec == Init /\ [][Next]_vars

\* one thread, every method
SpecSeq == InitSeq /\ [][Next]_vars

\* one thread, every method, with SerialConnection.DEBUG_MODE set
SpecDebug == InitDebug /\ [][Next]_vars

(***************************************************************************)
(* An instrument that answers the power detector command with samples      *)
(* without end and never sends the sentinel.                               *)
(***************************************************************************)
InitStream == mode = "stream" /\ DEBUG_MODE = FALSE /\ InitController

\* the instrument takes a power detector command and starts to send samples
DeviceStartStream ==
    /\ isOpen
    /\ outBuf # <<>>
    /\ devPending = <<>>
    /\ streaming = 0
    /\ SubSeq(Head(outBuf).txt, 1, 1) = READ_POWER_DETECTOR
    /\ streaming' = Head(outBuf).id
    /\ outBuf' = Tail(outBuf)
    /\ UNCHANGED <<mode, DEBUG_MODE, nCalls, locals, lock, isOpen, inBuf, devPending, hist,
                   formatted, held, polled, managed>>

\* the next sample arrives (the input buffer of the port is finite)
DeviceStream ==
    /\ isOpen
    /\ streaming # 0
    /\ Len(inBuf) < MaxLines
    /\ inBuf' = Append(inBuf, [txt |-> DataLine(1), cmd |-> streaming, n |-> 0])
    /\ UNCHANGED <<mode, DEBUG_MODE, nCalls, locals, lock, isOpen, outBuf, devPending, hist,
                   extra>>

NextStream ==
    \/ \E t \in Active(mode) :
        \/ Call(t)
        \/ Acquire(t)
        \/ Reset(t)
        \/ Write(t)
        \/ Release(t)
        \/ GetRead(t)
        \/ RpdRead(t)
        \/ Return(t)
    \/ DeviceReceive
    \/ DeviceEmit
    \/ DeviceStartStream
    \/ DeviceStream

\* Weak fairness of the pass of the read loop, WF_vars(RpdRead(1)), written
\* with the condition under which the pass can be taken (the thread is in the
\* loop) in place of ENABLED: readline returns within the read timeout, so a
\* thread in the loop does take its next pass.
FairRpdRead == ([]<>(pc[1] # "rpd")) \/ ([]<><<RpdRead(1)>>_vars)

\* One thread and an instrument that may stream: the thread in the read loop
\* keeps reading and the streaming instrument keeps sending.
SpecStream ==
    InitStream /\ [][NextStream]_vars /\ WF_vars(DeviceStream) /\ FairRpdRead

(***************************************************************************)
(* SerialConnection.read_response(wait_time) on its own.  Time is counted  *)
(* in ticks of the clock that time.perf_counter() reads.                   *)
(***************************************************************************)
MaxWait == 2

\* what may be waiting on the port: a value, padded text, a blank line
RawLines == {"2450.0000000\n", " ok \r\n", "\n"}

InitPoll ==
    /\ mode = "poll"
    /\ DEBUG_MODE = FALSE
    /\ InitCommon
    /\ formatted = NoFormat
    /\ managed = NoContext
    /\ polled \in [pc : {"start"}, wait_time : 0..MaxWait, elapsed : {0}, response : {""},
                    reads : {0}, readAt : {-1}, result : {""}]

\* the body of the polling loop with the first non-empty line not ending it
read_response_loop_NoBreak(cur, r) ==
    IF inBuf # <<>> THEN [response |-> r.text, read |-> TRUE, break |-> FALSE]
    ELSE [response |-> cur, read |-> FALSE, break |-> FALSE]

\* one pass of the body of the polling loop, cur being the response so far
\* and r what readline() gives:
\*   if self.connection.in_waiting > 0: response = self.connection.readline().decode()
\*   if response != '': break
read_response_loop(cur, r) ==
    IF inBuf # <<>> THEN [response |-> r.text, read |-> TRUE, break |-> r.text # ""]
    ELSE [response |-> cur, read |-> FALSE, break |-> cur # ""]

\* a line arrives at the port
PollArrive ==
    /\ mode = "poll"
    /\ polled.pc \in {"start", "loop"}
    /\ Len(inBuf) < MaxLines
    /\ \E x \in RawLines : inBuf' = Append(inBuf, [txt |-> x, cmd |-> 0, n |-> 0])
    /\ UNCHANGED <<mode, DEBUG_MODE, nCalls, locals, lock, isOpen, outBuf, devPending, hist,
                   extra>>

\* response = self.connection.readline().decode()
\* if wait_time > 0 and response == '': start_time = time.perf_counter()
PollFirstRead ==
    /\ polled.pc = "start"
    /\ LET r == readline
       IN  /\ inBuf' = r.rest
           /\ consumed' = [consumed EXCEPT ![1] = @ \o r.got]
           /\ polled' = [polled EXCEPT
                           !.response = r.text,
                           !.reads = @ + 1,
                           !.pc = IF r.exc # "" THEN "raised"
                                  ELSE IF polled.wait_time > 0 /\ r.text = "" THEN "loop"
                                  ELSE "return"]
    /\ UNCHANGED <<mode, DEBUG_MODE, nCalls, locals, lock, isOpen, outBuf, devPending,
                   chanLog, stale, portLog, formatted, held, streaming, managed>>

\* the clock advances while the loop runs
PollTick ==
    /\ polled.pc = "loop"
    /\ polled.elapsed < polled.wait_time
    /\ polled' = [polled EXCEPT !.elapsed = @ + 1]
    /\ UNCHANGED <<mode, DEBUG_MODE, nCalls, locals, lock, chan, hist, formatted, held,
                   streaming, managed>>

\* while time.perf_counter() - start_time < wait_time: one pass of the body
PollIterate ==
    /\ polled.pc = "loop"
    /\ IF ~(polled.elapsed < polled.wait_time)
       THEN /\ polled' = [polled EXCEPT !.pc = "return"]
            /\ UNCHANGED <<inBuf, consumed>>
       ELSE LET r == readline
                b == read_response_loop(polled.response, r)
            IN  /\ inBuf' = IF b.read THEN r.rest ELSE inBuf
                /\ consumed' = [consumed EXCEPT ![1] = IF b.read THEN @ \o r.got ELSE @]
                /\ polled' = [polled EXCEPT
                                !.response = b.response,
                                !.reads = IF b.read THEN @ + 1 ELSE @,
                                !.readAt = IF b.read THEN polled.elapsed ELSE @,
                                !.pc = IF b.read /\ r.exc # "" THEN "raised"
                                       ELSE IF b.break THEN "return" ELSE "loop"]
    /\ UNCHANGED <<mode, DEBUG_MODE, nCalls, locals, lock, isOpen, outBuf, devPending,
                   chanLog, stale, portLog, formatted, held, streaming, managed>>

\* return response.strip()
PollReturn ==
    /\ polled.pc = "return"
    /\ polled' = [polled EXCEPT !.result = Strip(polled.response), !.pc = "done"]
    /\ UNCHANGED <<mode, DEBUG_MODE, nCalls, locals, lock, chan, hist, formatted, held,
                   streaming, managed>>

NextPoll ==
    \/ PollArrive
    \/ PollFirstRead
    \/ PollTick
    \/ PollIterate
    \/ PollReturn

\* read_response with every wait time up to MaxWait and lines arriving at any
\* moment
SpecPoll == InitPoll /\ [][NextPoll]_vars

(***************************************************************************)
(* The connection as a context manager:                                    *)
(*     with SerialConnection.connection(port, baud) as c: <block>          *)
(* The block uses a controller on c.                                       *)
(***************************************************************************)
\* serial_connection = cls(*args, **kwargs) has opened the port and the
\* generator stands at its yield: the block runs
InitContext ==
    /\ mode = "context"
    /\ DEBUG_MODE = FALSE
    /\ InitCommon
    /\ formatted = NoFormat
    /\ polled = NoPoll
    /\ managed = [pc |-> "block", disconnects |-> 0]

\* SerialConnection.disconnect: self.connection.close()
disconnect == [isOpen |-> FALSE]

\* the block ends normally: the generator resumes after its yield and calls
\* serial_connection.disconnect()
ContextExit ==
    /\ managed.pc = "block"
    /\ \A t \in Threads : pc[t] = "idle"
    /\ isOpen' = disconnect.isOpen
    /\ managed' = [managed EXCEPT !.pc = "exited", !.disconnects = @ + 1]
    /\ UNCHANGED <<mode, DEBUG_MODE, nCalls, locals, lock, inBuf, outBuf, devPending, hist,
                   formatted, held, streaming, polled>>

\* a call inside the block has raised and the block does not catch it: the
\* exception is thrown into the generator at its yield, which has no try
\* around it, so the generator ends there
ContextRaise ==
    /\ managed.pc = "block"
    /\ \E t \in Active(mode) : pc[t] = "done" /\ outcome[t] # "ok"
    /\ managed' = [managed EXCEPT !.pc = "raised"]
    /\ UNCHANGED <<mode, DEBUG_MODE, nCalls, locals, lock, chan, hist, formatted, held,
                   streaming, polled>>

\* the block makes its calls (it may catch what they raise and go on)
ContextBlock ==
    /\ managed.pc = "block"
    /\ \E t \in Active(mode) :
        \/ Call(t)
        \/ Acquire(t)
        \/ Reset(t)
        \/ Write(t)
        \/ Release(t)
        \/ GetRead(t)
        \/ Return(t)

NextContext ==
    \/ ContextBlock
    \/ ContextExit
    \/ ContextRaise
    \/ DeviceReceive
    \/ DeviceEmit

\* one thread using the connection inside the with block
SpecContext == InitContext /\ [][NextContext]_vars

(***************************************************************************)
(* Nested use of the lock: a thread's own code takes the controller's      *)
(* RLock around a sequence of controller calls.                            *)
(***************************************************************************)
InitNested == mode = "nested" /\ DEBUG_MODE = FALSE /\ InitController

\* with controller._lock: (enter), in the caller's code between two calls
OuterAcquire(t) ==
    /\ pc[t] = "idle"
    /\ held[t] = 0
    /\ lockOwner \in {NoThread, t}
    /\ lockOwner' = t
    /\ lockCount' = lockCount + 1
    /\ held' = [held EXCEPT ![t] = 1]
    /\ UNCHANGED <<mode, DEBUG_MODE, nCalls, locals, chan, hist, formatted, streaming,
                   polled, managed>>

\* with controller._lock: (exit)
OuterRelease(t) ==
    /\ pc[t] = "idle"
    /\ held[t] = 1
    /\ lockOwner' = WithLockExit(FALSE).owner
    /\ lockCount' = WithLockExit(FALSE).count
    /\ held' = [held EXCEPT ![t] = 0]
    /\ UNCHANGED <<mode, DEBUG_MODE, nCalls, locals, chan, hist, formatted, streaming,
                   polled, managed>>

NextNested ==
    \/ \E t \in Active(mode) :
        \/ OuterAcquire(t)
        \/ OuterRelease(t)
        \/ Call(t)
        \/ Acquire(t)
        \/ Reset(t)
        \/ Write(t)
        \/ Release(t)
        \/ GetRead(t)
        \/ Return(t)
    \/ DeviceReceive
    \/ DeviceEmit

\* two threads, either of which may hold the lock around its calls
SpecNested == InitNested /\ [][NextNested]_vars

(***************************************************************************)
(* The command encoder on its own: Command.format applied to every command *)
(* code with every kind of argument.                                       *)
(***************************************************************************)
Codes ==
    {SET_FREQUENCY_MHZ, SET_RF_POWER_dBm, QUERY_CAL_SUCCESS, SET_TEMP_COMPENSATION,
     READ_POWER_DETECTOR, SET_RF_DETECTOR_MODE, SET_RAW_DAC, SET_PHASE_STEP, SET_RF_MUTE,
     SET_PLL_CHARGE_PUMP_CURRENT, SET_REFERENCE_DOUBLER, SET_CHANNEL_SPACING,
     SAVE_SETTINGS_TO_EEPROM, SET_REFERENCE_SOURCE, SET_REFERENCE_FREQUENCY,
     SET_TRIGGER_CONNECTOR_FUNCTION, SET_LOWER_FREQ_LINEAR_SWEEP,
     SET_UPPER_FREQ_LINEAR_SWEEP, SET_STEP_SIZE_FREQ_LINEAR_SWEEP, SET_TIME_LINEAR_SWEEP,
     SET_LINEAR_SWEEP_POWER_LOW, SET_LINEAR_SWEEP_POWER_HIGH, SET_SWEEP_DIRECTION,
     SET_SWEEP_TYPE, SET_READ_WHILE_SWEEP, SET_SWEEP_DISPLAY_STYLE, RUN_SWEEP,
     SET_SWEEP_CONTINUOUS, QUERY_INTERNAL_TEMPERATURE, SHOW_VERSION, SHOW_MODEL_TYPE,
     SHOW_SERIAL_NUMBER, PLL_ENABLE, QUERY_CHAR}

\* arguments: absent, enum codes, ints, floats (some with more digits than
\* are transmitted)
FormatArgs ==
    {PyNone, PyStr("0"), PyStr("1"), PyStr("9"),
     PyInt(0), PyInt(1), PyInt(2450), PyInt(-20),
     PyFloat(2450, 0), PyFloat(-20, 0), PyFloat(125, 1), PyFloat(-10176, 3),
     PyFloat(12345678, 8), PyFloat(5, 4)}

InitFormat ==
    /\ mode = "format"
    /\ DEBUG_MODE = FALSE
    /\ InitCommon
    /\ polled = NoPoll
    /\ managed = NoContext
    /\ formatted \in [command : Codes, query : BOOLEAN, arg : FormatArgs,
                      sigfigs : {3, NUM_SIG_FIG_FLOAT}, text : {""}, done : {FALSE}]

\* Command.format(command, query, arg, sigfigs) is called
FormatCall ==
    /\ mode = "format"
    /\ ~formatted.done
    /\ formatted' = [formatted EXCEPT
                        !.text = Format(formatted.command, formatted.query, formatted.arg,
                                        formatted.sigfigs),
                        !.done = TRUE]
    /\ UNCHANGED <<mode, DEBUG_MODE, nCalls, locals, lock, chan, hist, held, streaming,
                   polled, managed>>

NextFormat == FormatCall

\* Command.format with every code and argument
SpecFormat == InitFormat /\ [][NextFormat]_vars

(***************************************************************************)
(* Properties.                                                             *)
(***************************************************************************)
Kind(t) == Method(op[t], arg[t]).kind

IsPrefix(a, b) == Len(a) <= Len(b) /\ \A i \in 1..Len(a) : a[i] = b[i]

\* t is inside the exchange of its call: from the buffer reset to its last read
InExchange(t) == pc[t] \in {"reset", "write", "release", "read", "rpd", "help"}

\* the texts of the lines t has taken off the input buffer, stripped
Taken(t) == [i \in 1..Len(consumed[t]) |-> Strip(consumed[t][i].txt)]

\* C1: the calling thread holds the controller's lock during the whole
\* exchange (buffer reset, write and every read of the reply), so at most one
\* round trip is in flight and no thread touches the channel without the lock.
C1_LockHeldForWholeExchange ==
    /\ \A t \in Threads : InExchange(t) => lockOwner = t
    /\ Cardinality({t \in Threads : InExchange(t)}) <= 1

\* C2: in every transaction the buffers are reset before the command is
\* written and the command is written before any read of the reply; a line
\* that sat in the input buffer when a single-reply query began is never the
\* line whose value the query returns.
C2_StaleLineNeverReturned ==
    \A t \in Threads :
        /\ IsPrefix(chanLog[t], <<"lock", "reset", "write", "unlock", "read">>)
        /\ (pc[t] = "done" /\ Kind(t) = "get" /\ outcome[t] = "ok")
              => \A i \in 1..Len(consumed[t]) : consumed[t][i] \notin stale[t]

\* a single-reply query that began with a stale line in the input buffer has
\* returned the value of a line it read
C2_Witness ==
    \E t \in Threads :
        /\ pc[t] = "done" /\ Kind(t) = "get" /\ outcome[t] = "ok"
        /\ stale[t] # {}
        /\ consumed[t] # <<>>
        /\ chanLog[t] = <<"lock", "reset", "write", "unlock", "read">>

\* t is inside "with self._lock" of send_command
InWithBlock(t) == pc[t] \in {"reset", "write", "release"}

\* C3: the lock is released on every exit path of a transaction (normal
\* return, timed-out read, exception from the reset, the write, the read or
\* the decoding); a thread outside the with block never owns the lock, and
\* once no thread is inside it a waiting thread can take the lock at once.
C3_LockReleasedOnEveryExit ==
    /\ \A t \in Threads : ~InWithBlock(t) => lockOwner # t
    /\ (lockOwner = NoThread) <=> (lockCount = 0)
    /\ \A t \in Threads :
          (pc[t] = "acquire" /\ \A u \in Threads : ~InWithBlock(u)) => ENABLED Acquire(t)

\* a transaction ended in a fault raised inside the with block, and another
\* thread's later transaction has acquired the lock
C3_Witness ==
    \E t, u \in Threads :
        /\ t # u
        /\ pc[t] = "done" /\ outcome[t] = "SerialException"
        /\ chanLog[t] \in {<<"lock", "reset">>, <<"lock", "reset", "write">>}
        /\ callId[u] > callId[t]
        /\ InWithBlock(u) /\ lockOwner = u

\* position of the first sentinel among texts, or 0
FirstSentinel(texts) ==
    IF \E i \in 1..Len(texts) : texts[i] = SENTINEL
    THEN CHOOSE i \in 1..Len(texts) : texts[i] = SENTINEL /\ \A j \in 1..(i - 1) : texts[j] # SENTINEL
    ELSE 0

\* C4: read_power_detector returns exactly the data lines received before the
\* first sentinel "EOM.", as floats, in the order received, without the
\* sentinel; lines -10.176, -10.200 (, -10.150), EOM. give those numbers, and
\* when every line it took belongs to the reply to its own command, it took
\* that reply from its first line on, without a gap.
C4_PowerDetectorReturnsDataBeforeSentinel ==
    \A t \in Threads :
        (pc[t] = "done" /\ op[t] = "read_power_detector" /\ outcome[t] = "ok") =>
            LET texts == Taken(t)
                k     == FirstSentinel(texts)
            IN  /\ k = Len(texts) /\ k > 0
                /\ result[t].ty = "list"
                /\ Len(result[t].l) = k - 1
                /\ \A i \in 1..(k - 1) :
                      /\ ParseFloat(texts[i]).ok
                      /\ result[t].l[i] = ParseFloat(texts[i]).val
                      /\ texts[i] = "-10.176" => result[t].l[i] = PyFloat(-10176, 3)
                      /\ texts[i] = "-10.200" => result[t].l[i] = PyFloat(-102, 1)
                      /\ texts[i] = "-10.150" => result[t].l[i] = PyFloat(-1015, 2)
                /\ (\A i \in 1..k : consumed[t][i].cmd = callId[t])
                      => \A i \in 1..k : consumed[t][i].n = i

\* read_power_detector has returned after MaxLines data lines and the sentinel
C4_Witness ==
    \E t \in Threads :
        /\ pc[t] = "done" /\ op[t] = "read_power_detector" /\ outcome[t] = "ok"
        /\ Len(result[t].l) = MaxLines
        /\ result[t].l[1] = PyFloat(-10176, 3)
        /\ result[t].l[2] = PyFloat(-102, 1)
        /\ Taken(t)[MaxLines + 1] = SENTINEL

\* the reply text without the instrument's error framing
CleanError(text) ==
    LET a == IF Len(text) >= 7 /\ SubSeq(text, 1, 7) = "$error/"
             THEN SubSeq(text, 8, Len(text)) ELSE text
    IN  IF Len(a) >= 2 /\ SubSeq(a, Len(a) - 1, Len(a)) = "#%"
        THEN SubSeq(a, 1, Len(a) - 2) ELSE a

\* C5: when the reply line to a query contains "error", the getter does not
\* return it as data but raises a device error (carrying the line without
\* "$error/" and "#%"); this for every single-reply getter, the raw-string
\* ones included.
C5_ErrorReplyRaisesDeviceError ==
    \A t \in Threads :
        (pc[t] = "done" /\ Kind(t) = "get" /\ consumed[t] # <<>>
            /\ Contains(response[t], "error"))
        => /\ outcome[t] = "DeviceError"
           /\ result[t] # PyStr(response[t])
           /\ CleanError(response[t]) = "bad value"

\* C6: no device-reported error is dropped: an error line leaves the input
\* buffer only by being read by the call whose command it answers; it is
\* never left unread and then discarded by a buffer reset or taken by
\* another call.
C6_DeviceErrorNeverDropped ==
    [][\A i \in 1..Len(inBuf) :
          (Contains(inBuf[i].txt, "error") /\ inBuf[i] \notin Range(inBuf'))
          => \E t \in Threads :
                /\ callId[t] = inBuf[i].cmd
                /\ inBuf[i] \in Range(consumed'[t])]_vars

\* the setters (and show_version) of C7, and the values outside their
\* documented domains
C7Lo(o) ==
    CASE o = "set_reference_frequency"     -> PyFloat(10, 0)
      [] o = "set_channel_spacing"         -> PyFloat(1, 1)
      [] o = "set_pll_charge_pump_current" -> PyInt(1)
      [] o = "set_lower_freq_linear_sweep" -> PyFloat(125, 1)
      [] o = "set_upper_freq_linear_sweep" -> PyFloat(125, 1)
      [] o = "set_linear_sweep_power_low"  -> PyInt(-50)
      [] o = "set_linear_sweep_power_high" -> PyInt(-50)
      [] OTHER                             -> PyInt(0)

C7Hi(o) ==
    CASE o = "set_reference_frequency"     -> PyFloat(100, 0)
      [] o = "set_channel_spacing"         -> PyInt(1000)
      [] o = "set_pll_charge_pump_current" -> PyInt(15)
      [] o = "set_lower_freq_linear_sweep" -> PyInt(6400)
      [] o = "set_upper_freq_linear_sweep" -> PyInt(6400)
      [] o = "set_linear_sweep_power_low"  -> PyInt(20)
      [] o = "set_linear_sweep_power_high" -> PyInt(20)
      [] o \in {"set_sweep_type", "set_sweep_display_style"} -> PyInt(2)
      [] OTHER                             -> PyInt(1)

C7Setters ==
    {"set_reference_frequency", "set_channel_spacing", "set_pll_charge_pump_current",
     "set_reference_doubler", "set_lower_freq_linear_sweep", "set_upper_freq_linear_sweep",
     "set_linear_sweep_power_low", "set_linear_sweep_power_high", "set_sweep_direction",
     "set_sweep_type", "set_sweep_display_style", "show_version"}

C7Discrete ==
    {"set_reference_doubler", "set_sweep_direction", "set_sweep_type",
     "set_sweep_display_style", "show_version"}

\* a is outside the documented domain of o: not a number, below or above the
\* limits, or, for a domain of a few integers, not one of them.  (The charge
\* pump current is an integer setting; only integers are judged for it.)
C7OutOfDomain(o, a) ==
    \/ ~IsNumber(a)
    \/ ~NumLe(C7Lo(o), a)
    \/ ~NumLe(a, C7Hi(o))
    \/ o \in C7Discrete /\ a.e > 0

C8_TimeoutReturnsEmptyResult ==
    \A t \in Threads :
        (pc[t] = "done" /\ Kind(t) = "get" /\ Method(op[t], arg[t]).decode # "str"
            /\ chanLog[t] = <<"lock", "reset", "write", "unlock", "read">>
            /\ outcome[t] # "SerialException" /\ response[t] = "")
        => outcome[t] = "ok"

\* C9: a multi-reply read that got k data lines and then no sentinel before
\* its read timed out stops and returns the k values, without raising.
C9_PartialMultiReplyReturned ==
    \A t \in Threads :
        (pc[t] = "done" /\ op[t] = "read_power_detector"
            /\ outcome[t] # "SerialException" /\ response[t] = "")
        => /\ outcome[t] = "ok"
           /\ result[t] = PyList(responses[t])

\* C10: the sentinel "EOM." is never an element of a sequence returned to a
\* caller, by read_power_detector or by read_responses as get_help uses it.
C10_SentinelNeverReturned ==
    \A t \in Threads :
        (pc[t] = "done" /\ outcome[t] = "ok" /\ result[t].ty = "list")
        => \A i \in 1..Len(result[t].l) :
              result[t].l[i].ty = "str" => Strip(result[t].l[i].s) # SENTINEL

\* C11: in a multi-reply read a line containing the marker "error" is a
\* device error wherever it stands among the data lines (first, middle, last
\* before the sentinel): read_power_detector that has taken such a line has
\* ended by raising a device error, not a number-parsing error, and has not
\* returned.
C11_ErrorLineInMultiReplyRaisesDeviceError ==
    \A t \in Threads :
        (pc[t] = "done" /\ op[t] = "read_power_detector"
            /\ \E i \in 1..Len(consumed[t]) : Contains(consumed[t][i].txt, "error"))
        => outcome[t] = "DeviceError"

\* the documented domains of set_rf_frequency (12.5 to 6400.0 MHz),
\* set_rf_power (-60 to +20 dBm) and set_raw_dac (0 to 4000)
C12Lo(o) ==
    CASE o = "set_rf_frequency" -> PyFloat(125, 1)
      [] o = "set_rf_power"     -> PyInt(-60)
      [] OTHER                  -> PyInt(0)

C12Hi(o) ==
    CASE o = "set_rf_frequency" -> PyFloat(6400, 0)
      [] o = "set_rf_power"     -> PyInt(20)
      [] OTHER                  -> PyInt(4000)

C12Setters == {"set_rf_frequency", "set_rf_power", "set_raw_dac"}

\* C12: set_rf_frequency, set_rf_power and set_raw_dac validate their
\* argument before sending: called with a value outside the documented domain
\* they raise a validation error and no byte reaches the channel (no lock
\* taken, no reset, no write).
C12_TypedSettersValidateDomain ==
    \A t \in Threads :
        (pc[t] # "idle" /\ op[t] \in C12Setters /\ IsNumber(arg[t])
            /\ ~InRange(C12Lo(op[t]), arg[t], C12Hi(op[t])))
        => /\ pc[t] = "done"
           /\ outcome[t] = "ValueError"
           /\ chanLog[t] = <<>>

\* the setters of C13 and the number of fractional digits each transmits
C13Setters ==
    {"set_rf_frequency", "set_phase_step", "set_step_size_freq_linear_sweep", "set_rf_power"}

C13Digits(o) == IF o = "set_rf_power" THEN 3 ELSE NUM_SIG_FIG_FLOAT

\* C13: a numeric argument, given as an int or as a float, is written in
\* fixed-point notation with exactly the configured number of digits after
\* the decimal point (7; 3 for power levels): the command on the wire is the
\* code followed by [-]digits.digits with that many fractional digits and the
\* value of the argument; 2450 and 2450.0 both go out as f2450.0000000 and
\* set_rf_power(-20) as W-20.000.
C13_NumericArgumentInFixedPoint ==
    \A i \in 1..Len(outBuf) : \A t \in Threads :
        (callId[t] = outBuf[i].id /\ op[t] \in C13Setters /\ IsNumber(arg[t]))
        => LET body == SubSeq(outBuf[i].txt, 2, Len(outBuf[i].txt))
               dot  == FirstDot(body)
           IN  /\ dot > 0
               /\ Len(body) - dot = C13Digits(op[t])
               /\ ParseFloat(body).ok
               /\ NumEq(ParseFloat(body).val, arg[t])
               /\ (op[t] = "set_rf_frequency" /\ NumEq(arg[t], PyInt(2450)))
                     => outBuf[i].txt = "f2450.0000000"
               /\ (op[t] = "set_rf_power" /\ NumEq(arg[t], PyInt(-20)))
                     => outBuf[i].txt = "W-20.000"

\* the argument segment of a formatted command: nothing for an absent
\* argument, the code of an enum member, the digits of an int; for a float
\* whatever follows the command code
C14ArgSegment(f) ==
    CASE f.arg.ty = "None" -> ""
      [] f.arg.ty = "str"  -> f.arg.s
      [] f.arg.ty = "int"  -> IntToStr(f.arg.m)
      [] OTHER             -> SubSeq(Format(f.command, FALSE, f.arg, f.sigfigs),
                                     Len(f.command) + 1,
                                     Len(Format(f.command, FALSE, f.arg, f.sigfigs)))

\* C14: for every command code and every argument (absent, enum code, int,
\* float) Command.format with query=True gives the text of the same call with
\* query=False followed by exactly one "?": the marker comes once, after the
\* argument segment, and code and argument segments are as without it.
C14_QueryMarkerAppendedOnce ==
    formatted.done =>
        LET plain == Format(formatted.command, FALSE, formatted.arg, formatted.sigfigs)
        IN  /\ plain = formatted.command \o C14ArgSegment(formatted)
            /\ formatted.query => formatted.text = plain \o "?"
            /\ ~formatted.query => formatted.text = plain

\* Command.format("f", query=True, arg=2450.0) has given "f2450.0000000?"
C14_Witness ==
    /\ formatted.done /\ formatted.query
    /\ formatted.command = SET_FREQUENCY_MHZ /\ formatted.arg = PyFloat(2450, 0)
    /\ formatted.text = "f2450.0000000?"

\* C15: a set command is fire-and-forget whatever DEBUG_MODE is: after the
\* write send_command returns without any read on the channel, so a setter
\* that has returned has only locked, reset, written and unlocked, and has
\* taken nothing off the input buffer.
C15_SetIsFireAndForget ==
    \A t \in Threads :
        (pc[t] = "done" /\ Kind(t) = "set" /\ outcome[t] = "ok")
        => /\ chanLog[t] = <<"lock", "reset", "write", "unlock">>
           /\ consumed[t] = <<>>

\* the calls reset_buffers makes on the port when a discard raises on an open
\* port: the discards up to the failing one, then one close and one open
C16Recoveries ==
    {<<"reset_input_buffer", "close", "open">>,
     <<"reset_input_buffer", "reset_output_buffer", "close", "open">>}

\* t's command is on the wire
C16Written(t) == \E i \in 1..Len(outBuf) : outBuf[i].id = callId[t]

\* C16: when a discard (of the input or of the output buffer) fails inside
\* reset_buffers, the port is closed and reopened exactly once; after a
\* successful reopen the pending command is written on the reopened port;
\* after a failed reopen the fault reaches the caller, nothing is written and
\* no further reopen is attempted (for the caller and for later calls, which
\* find the port closed).
C16_DiscardFailureReopensOnce ==
    \A t \in Threads :
        \* reset_buffers has returned: either both discards went through, or
        \* one failed and the port was closed and reopened once
        /\ pc[t] \in {"write", "release"} =>
              /\ portLog[t] \in C16Recoveries \cup {<<"reset_input_buffer", "reset_output_buffer">>}
              /\ isOpen
              /\ pc[t] = "write" => ENABLED Write(t)
              /\ pc[t] = "release" => chanLog[t] = <<"lock", "reset", "write">>
        \* reset_buffers has raised: the one reopen failed, or the port was
        \* closed from the start and nothing was tried
        /\ (pc[t] = "done" /\ chanLog[t] = <<"lock", "reset">>) =>
              /\ outcome[t] = "SerialException"
              /\ portLog[t] \in C16Recoveries \cup {<<"reset_input_buffer">>}
              /\ ~isOpen
              /\ ~C16Written(t)
              /\ lockOwner # t

\* a fault of the output discard, a successful reopen, and the command written
C16_Witness ==
    \E t \in Threads :
        /\ pc[t] = "release"
        /\ portLog[t] = <<"reset_input_buffer", "reset_output_buffer", "close", "open">>
        /\ isOpen
        /\ outBuf = <<[txt |-> Method(op[t], arg[t]).cmd, id |-> callId[t]]>>

\* C17: nothing is carried from one transaction into the next, however the
\* earlier one ended: a later transaction returns what it would have returned
\* without the earlier one, so every line from which a getter or
\* read_power_detector makes its result is a reply to its own command, never
\* a line the instrument sent in answer to an earlier command.
C17_NoCarryOverBetweenTransactions ==
    \A t \in Threads :
        (pc[t] = "done" /\ Kind(t) \in {"get", "multi"})
        => \A i \in 1..Len(consumed[t]) : consumed[t][i].cmd = callId[t]

\* the lines the instrument has sent in answer to t's command, stripped
OwnReplies(t) ==
    {Strip(line.txt) : line \in {x \in Range(inBuf) \cup Range(consumed[t]) : x.cmd = callId[t]}}

\* C18: get_pll_enable sends "E?", reads the reply line and returns True when
\* the instrument reports the PLL powered on (reply 1) and False when it
\* reports it off (reply 0).
C18_GetPllEnableReportsReply ==
    \A t \in Threads :
        (pc[t] = "done" /\ op[t] = "get_pll_enable" /\ outcome[t] = "ok")
        => /\ Method(op[t], arg[t]).cmd = "E?"
           /\ "1" \in OwnReplies(t) => (result[t] = PyBool(TRUE) /\ consumed[t] # <<>>)
           /\ "0" \in OwnReplies(t) => (result[t] = PyBool(FALSE) /\ consumed[t] # <<>>)

\* C19: get_calibration_succesful returns True if the reply is 1 and False
\* otherwise, in particular False for the reply 0 and when no reply arrives.
C19_CalibrationFlagFromReply ==
    \A t \in Threads :
        (pc[t] = "done" /\ op[t] = "get_calibration_succesful"
            /\ chanLog[t] = <<"lock", "reset", "write", "unlock", "read">>
            /\ outcome[t] # "SerialException"
            /\ response[t] \in {"1", "0", ""})
        => /\ outcome[t] = "ok"
           /\ result[t] = PyBool(response[t] = "1")

\* C20: in a multi-reply read every data line is converted to a float when
\* it parses as one and is otherwise kept as text: read_power_detector that
\* took a non-numeric data line before the sentinel has not aborted, and its
\* list holds that line as a string in its place.
C20_NonNumericLineKeptAsText ==
    \A t \in Threads : \A i \in 1..Len(consumed[t]) :
        (pc[t] = "done" /\ op[t] = "read_power_detector"
            /\ \A j \in 1..i : Taken(t)[j] # SENTINEL
            /\ Taken(t)[i] # "" /\ ~Contains(Taken(t)[i], "error")
            /\ ~ParseFloat(Taken(t)[i]).ok)
        => /\ outcome[t] = "ok"
           /\ Len(result[t].l) >= i
           /\ result[t].l[i] = convert_float(Taken(t)[i])
           /\ result[t].l[i] = PyStr(Taken(t)[i])

\* C21: the controller's lock is re-entrant: a thread that holds it can run
\* a nested transaction without blocking on itself; the lock stays with that
\* thread until its outermost acquisition is released; meanwhile no other
\* thread holds the lock or can take it.
C21_LockIsReentrant ==
    \A t \in Threads :
        held[t] = 1 =>
            /\ lockOwner = t
            /\ lockCount = IF InWithBlock(t) THEN 2 ELSE 1
            /\ pc[t] = "acquire" => ENABLED Acquire(t)
            /\ \A u \in Threads \ {t} :
                  /\ held[u] = 0
                  /\ ~InWithBlock(u)
                  /\ ~ENABLED Acquire(u)
                  /\ ~ENABLED OuterAcquire(u)

\* a thread holding the lock is inside a nested transaction, its command
\* written, while the other thread waits for the lock
C21_Witness ==
    \E t \in Threads : \E u \in Threads \ {t} :
        /\ held[t] = 1 /\ pc[t] = "release" /\ lockCount = 2
        /\ pc[u] = "acquire"

\* C22: the text Command.format builds, which is what is handed to the write,
\* holds no line feed and no carriage return, for every command code and
\* every argument of the types the accessors declare.
C22_FormattedTextHasNoLineBreak ==
    formatted.done =>
        /\ ~Contains(formatted.text, "\n")
        /\ ~Contains(formatted.text, "\r")
        /\ Len(formatted.text) >= Len(formatted.command)

\* Command.format("W", arg=-20.0, sigfigs=3) has given "W-20.000"
C22_Witness ==
    /\ formatted.done /\ ~formatted.query
    /\ formatted.command = SET_RF_POWER_dBm /\ formatted.arg = PyFloat(-20, 0)
    /\ formatted.sigfigs = 3
    /\ formatted.text = "W-20.000"

\* C23: a multi-reply read ends whatever the instrument sends: a thread
\* inside the read loop of read_power_detector eventually leaves it (returns
\* or raises), also when the sentinel never comes and samples keep coming.
C23_PowerDetectorReadTerminates ==
    \A t \in Threads : (pc[t] = "rpd") ~> (pc[t] = "done")

\* the line last taken off the port by the call, or "" if none was
C24LastLine == IF consumed[1] = <<>> THEN "" ELSE consumed[1][Len(consumed[1])].txt

\* C24: read_response(wait_time) polls only after an empty first read with
\* wait_time > 0 and only while fewer than wait_time ticks have elapsed; a
\* non-empty first line is returned without polling; polling reads once
\* bytes are waiting and stops at the first non-empty line, so the call takes
\* at most one line; the result is the last line read, stripped, or "" when
\* nothing arrived; with wait_time = 0 there is exactly one read.
C24_ReadResponsePollsWithinWaitTime ==
    /\ polled.pc = "loop" =>
          /\ polled.wait_time > 0 /\ polled.response = "" /\ consumed[1] = <<>>
          /\ polled.reads = 1
    /\ polled.pc \in {"return", "done"} =>
          /\ polled.response = C24LastLine
          /\ Len(consumed[1]) <= 1
          /\ polled.reads \in {1, 2}
          /\ polled.wait_time = 0 => polled.reads = 1
          /\ polled.reads = 2 =>
                /\ Len(consumed[1]) = 1
                /\ polled.readAt >= 0 /\ polled.readAt < polled.wait_time
          /\ (polled.reads = 1 /\ consumed[1] = <<>> /\ polled.wait_time > 0) =>
                polled.elapsed = polled.wait_time
          /\ (polled.reads = 1 /\ consumed[1] # <<>>) => polled.elapsed = 0
    /\ polled.pc = "done" => polled.result = Strip(C24LastLine)

\* a call with wait_time 2 found nothing at first, polled, read " ok \r\n"
\* after one tick and returned "ok"
C24_Witness ==
    /\ polled.pc = "done" /\ polled.wait_time = 2
    /\ polled.reads = 2 /\ polled.readAt = 1
    /\ C24LastLine = " ok \r\n" /\ polled.result = "ok"

\* a call with wait_time 2 polled until the time was up and returned ""
C24_WitnessTimeout ==
    /\ polled.pc = "done" /\ polled.wait_time = 2 /\ polled.elapsed = 2
    /\ polled.reads = 1 /\ polled.result = ""

\* C25: with two threads issuing queries on one controller each thread gets
\* the reply to its own command: a query that has returned a value has not
\* taken a line the instrument sent in answer to the command of the other
\* thread's query.
C25_ReplyGoesToItsCaller ==
    \A t \in Threads : \A u \in Threads \ {t} :
        (/\ pc[t] = "done" /\ Kind(t) = "get" /\ outcome[t] = "ok"
         /\ callId[u] # 0 /\ Kind(u) = "get")
        => \A i \in 1..Len(consumed[t]) : consumed[t][i].cmd # callId[u]

\* C26: read_responses returns every line it takes off the port: when
\* get_help has returned, the list it returns holds the lines the call
\* consumed, each stripped, in the order of arrival.
C26_ReadResponsesReturnsEveryLine ==
    \A t \in Threads :
        (pc[t] = "done" /\ op[t] = "get_help" /\ outcome[t] = "ok")
        => result[t] = PyList([i \in 1..Len(Taken(t)) |-> PyStr(Taken(t)[i])])

\* the canonical commands of a discrete setter: its code and one digit
C27Canonical(o) ==
    CASE o = "set_reference_doubler"   -> {SET_REFERENCE_DOUBLER \o d : d \in {"0", "1"}}
      [] o = "set_sweep_direction"     -> {SET_SWEEP_DIRECTION \o d : d \in {"0", "1"}}
      [] o = "set_sweep_type"          -> {SET_SWEEP_TYPE \o d : d \in {"0", "1", "2"}}
      [] o = "set_sweep_display_style" -> {SET_SWEEP_DISPLAY_STYLE \o d : d \in {"0", "1", "2"}}
      [] OTHER                         -> {}

\* C27: the discrete setters write only canonical codes: whatever input has
\* passed the domain check (True/False and 0.0/1.0 included), the command on
\* the wire is the setter's code followed by one of the digits of its domain.
C27_DiscreteSettersWriteCanonicalCodes ==
    \A t \in Threads : \A i \in 1..Len(outBuf) :
        (outBuf[i].id = callId[t] /\ C27Canonical(op[t]) # {})
        => outBuf[i].txt \in C27Canonical(op[t])

\* C28: the context manager closes the channel on every exit from the
\* managed block: when the block has ended, normally or by an exception
\* raised inside it, disconnect has been called exactly once and the serial
\* handle is closed.
C28_ContextManagerAlwaysDisconnects ==
    managed.pc \in {"exited", "raised"} =>
        /\ managed.disconnects = 1
        /\ ~isOpen

====
